---- MODULE Spec2Model ----
(***************************************************************************)
(* Dubai rental bot: the listing store (src/database.py), the batch        *)
(* pipeline of the bot (src/bot.py): scrape, upsert, age-out, fetch        *)
(* pending, dispatch, mark notified, and the scraper (src/scraper.py):     *)
(* page extraction, site isolation, identity, rule set mutation.  Batches  *)
(* are coroutines of one asyncio event loop: a coroutine keeps the loop    *)
(* until it awaits.                                                        *)
(***************************************************************************)
EXTENDS Integers, Sequences, FiniteSets, TLC

VARIABLES
    now,             \* datetime.utcnow(), in days
    max_listings,    \* DubaiRentalBot.max_listings
    chat_id,         \* DubaiRentalBot.chat_id is set (TELEGRAM_CHAT_ID is configured)
    store,           \* rows of table 'properties', in insertion order (row i has id i)
    running,         \* the coroutine that holds the event loop, or NoTask
    pc,              \* per batch coroutine: the step it is at
    properties,      \* scrape_and_notify: local 'properties' (scraped drafts)
    pos,             \* scrape_and_notify: position of the upsert loop in 'properties'
    new_count,       \* scrape_and_notify: local 'new_count'
    new_properties,  \* scrape_and_notify: local 'new_properties' (ids of the fetched rows)
    k,               \* send_property_notification: position of the dispatch loop
    delivered,       \* history: ids of the rows whose record message the channel accepted
    left,            \* history: the pending rows the last finished batch did not dispatch,
                     \* until the next batch starts to dispatch
    aged,            \* history, per batch: the rows its age-out made inactive, until it
                     \* starts to dispatch
    cap_pc,          \* cap scenario: the step it is at
    cap_n,           \* cap scenario: number of new drafts upserted
    first,           \* cap scenario: result of the first get_new_properties call
    second,          \* cap scenario: result of the second get_new_properties call
    config,          \* PropertyScraper.config, the rule set document
    web,             \* per site name: what a GET of its search_url yields
    select_empty_raises, \* the selector library raises on an empty selector
    s_pc,            \* scrape_all_sites: the step it is at
    site_no,         \* scrape_all_sites: position of the loop over config['sites']
    listing_no,      \* scrape_site: position of the loop over listing_containers
    site_properties, \* scrape_site: local 'properties'
    all_properties,  \* scrape_all_sites: local 'all_properties'
    call,            \* the last operation called on the rule set, with its argument
    result,          \* what that operation returned or raised
    config_file,     \* the document at config_path, as json.dump wrote it
    wire,            \* history: the delays taken and the requests issued, in order
    f_pc,            \* fetch scenario, per trigger: the step its call of
                     \* scrape_all_sites is at
    f_site,          \* fetch scenario, per trigger: position of the loop over
                     \* config['sites']
    id_args,         \* identity scenario: two (url, title) pairs
    id_out           \* identity scenario: the _generate_id of each pair

\* the variables of the scraper and of the identity scenario
scraper == <<config, web, select_empty_raises, s_pc, site_no, listing_no,
             site_properties, all_properties, call, result, config_file,
             wire, f_pc, f_site>>
ident == <<id_args, id_out>>

\* the variables of the scraper and of the scenarios, which the bot leaves alone
scenario == <<cap_pc, cap_n, first, second, scraper, ident>>

vars == <<now, max_listings, chat_id, store, running, pc, properties, pos, new_count,
          new_properties, k, delivered, left, aged, scenario>>

-----------------------------------------------------------------------------
(* Bounds of the model *)

MaxTicks == 1        \* how many times the clock advances
ClockStep == 8       \* days by which one clock step advances
MaxDrafts == 2       \* longest result of one scrape
MaxCap == 2          \* largest configured MAX_LISTINGS_PER_NOTIFICATION
MaxNew == 5          \* cap scenario: largest number of new drafts
MaxContainers == 3   \* most listing containers on the page of a one-site rule set
MaxPage == 2         \* most listing containers on a page of a two-site rule set
MaxSites == 3        \* rule set scenario: most entries of config['sites']
MaxCalls == 3        \* fetch scenario: most calls of scrape_all_sites

(* Program constants *)

Days == 7            \* mark_old_listings_inactive(days=7)

-----------------------------------------------------------------------------
(* Values *)

Tasks == {"timer", "scan"}
NoTask == "none"

Urls == {"u1", "u2"}
Titles == {"t"}

Min(a, b) == IF a <= b THEN a ELSE b

\* _generate_id that leaves the title out
generate_id_url_only(url, title) == url \o ":"

\* _generate_id: digest of url + ":" + title; the digest is taken as injective
\* on its input string and is represented by that string
generate_id(url, title) == url \o ":" \o title

\* the dict returned by _extract_property_data
Draft(url, title, source, price) ==
    [external_id |-> generate_id(url, title),
     source      |-> source,
     title       |-> title,
     price       |-> price,
     location    |-> "N/A",
     bedrooms    |-> "N/A",
     area        |-> "N/A",
     url         |-> url,
     description |-> ""]

\* the drafts the sites may yield: every listing on site A, and the listing at
\* u1 also on site B, which shows another price for it
Drafts == {Draft(u, t, "A", "p1") : u \in Urls, t \in Titles}
            \cup {Draft("u1", t, "B", "p2") : t \in Titles}

SeqsUpTo(S, n) == UNION {[1..m -> S] : m \in 0..n}

\* the lists scrape_all_sites may return: the records of site A before those of
\* site B (the sites are scraped in configured order), no record twice
ScrapeResults ==
    {r \in SeqsUpTo(Drafts, MaxDrafts) :
        \A i, j \in 1..Len(r) : i < j => r[i] # r[j] /\ ~(r[i].source = "B" /\ r[j].source = "A")}

-----------------------------------------------------------------------------
(* src/database.py *)

\* Property(...): the row inserted for a draft; first_seen and last_seen take
\* their column default, utcnow() at the insert
Property(id, d, t) ==
    [id          |-> id,
     external_id |-> d.external_id,
     source      |-> d.source,
     title       |-> d.title,
     price       |-> d.price,
     location    |-> d.location,
     bedrooms    |-> d.bedrooms,
     area        |-> d.area,
     url         |-> d.url,
     description |-> d.description,
     first_seen  |-> t,
     last_seen   |-> t,
     is_active   |-> TRUE,
     notified    |-> FALSE]

\* query(Property).filter_by(external_id=...).first(): index of the row, 0 if none
FindByExternalId(s, eid) ==
    IF \E i \in 1..Len(s) : s[i].external_id = eid
    THEN CHOOSE i \in 1..Len(s) :
             /\ s[i].external_id = eid
             /\ \A j \in 1..(i - 1) : s[j].external_id # eid
    ELSE 0

\* add_property without the lookup of line 63: every draft is inserted
add_property_no_lookup(s, d, t) ==
    [store  |-> Append(s, Property(Len(s) + 1, d, t)),
     is_new |-> TRUE]

\* add_property returning True on the update path as well
add_property_always_true(s, d, t) ==
    LET existing == FindByExternalId(s, d.external_id) IN
    IF existing # 0
    THEN [store  |-> [s EXCEPT ![existing].last_seen = t,
                               ![existing].is_active = TRUE],
          is_new |-> TRUE]
    ELSE [store  |-> Append(s, Property(Len(s) + 1, d, t)),
          is_new |-> TRUE]

\* add_property refreshing the price of the row it finds
add_property_refresh(s, d, t) ==
    LET existing == FindByExternalId(s, d.external_id) IN
    IF existing # 0
    THEN [store  |-> [s EXCEPT ![existing].last_seen = t,
                               ![existing].is_active = TRUE,
                               ![existing].price = d.price],
          is_new |-> FALSE]
    ELSE [store  |-> Append(s, Property(Len(s) + 1, d, t)),
          is_new |-> TRUE]

\* add_property making the row it finds new again
add_property_renotify(s, d, t) ==
    LET existing == FindByExternalId(s, d.external_id) IN
    IF existing # 0
    THEN [store  |-> [s EXCEPT ![existing].last_seen = t,
                               ![existing].is_active = TRUE,
                               ![existing].notified = FALSE],
          is_new |-> FALSE]
    ELSE [store  |-> Append(s, Property(Len(s) + 1, d, t)),
          is_new |-> TRUE]

\* Database.add_property: the store after the call and the value returned
add_property(s, d, t) ==
    LET existing == FindByExternalId(s, d.external_id) IN
    IF existing # 0
    THEN [store  |-> [s EXCEPT ![existing].last_seen = t,
                               ![existing].is_active = TRUE],
          is_new |-> FALSE]
    ELSE [store  |-> Append(s, Property(Len(s) + 1, d, t)),
          is_new |-> TRUE]

\* get_new_properties with the limit never applied
get_new_properties_unlimited(s, limit) ==
    LET ids   == [i \in 1..Len(s) |-> i]
        query == SelectSeq(ids, LAMBDA i : ~s[i].notified /\ s[i].is_active)
    IN  query

\* Database.get_new_properties: ids of the rows returned, in row order;
\* 'if limit:' applies the limit only when it is truthy
get_new_properties(s, limit) ==
    LET ids   == [i \in 1..Len(s) |-> i]
        query == SelectSeq(ids, LAMBDA i : ~s[i].notified /\ s[i].is_active)
    IN  IF limit # 0 THEN SubSeq(query, 1, Min(limit, Len(query))) ELSE query

\* mark_as_notified whose change is lost (no commit)
mark_as_notified_lost(s, id) == s

\* Database.mark_as_notified
mark_as_notified(s, id) ==
    IF id \in 1..Len(s) THEN [s EXCEPT ![id].notified = TRUE] ELSE s

\* mark_old_listings_inactive with the comparison of line 120 reversed
mark_old_listings_inactive_reversed(s, days, t) ==
    LET cutoff_date == t - days IN
    [i \in 1..Len(s) |->
        IF s[i].last_seen > cutoff_date /\ s[i].is_active = TRUE
        THEN [s[i] EXCEPT !.is_active = FALSE]
        ELSE s[i]]

\* Database.mark_old_listings_inactive
mark_old_listings_inactive(s, days, t) ==
    LET cutoff_date == t - days IN
    [i \in 1..Len(s) |->
        IF s[i].last_seen < cutoff_date /\ s[i].is_active = TRUE
        THEN [s[i] EXCEPT !.is_active = FALSE]
        ELSE s[i]]

\* the rows get_new_properties selects from: notified == False, is_active == True
Pending(s) == {i \in 1..Len(s) : ~s[i].notified /\ s[i].is_active}

-----------------------------------------------------------------------------
(* The parts a specification does not run stay as they are here *)

FetchOff ==
    /\ f_pc = [t \in Tasks |-> "idle"]
    /\ f_site = [t \in Tasks |-> 0]

ScraperOff ==
    /\ config = [scraping_settings |-> <<>>, sites |-> <<>>]
    /\ web = <<>>
    /\ select_empty_raises = FALSE
    /\ s_pc = "off"
    /\ site_no = 0
    /\ listing_no = 0
    /\ site_properties = <<>>
    /\ all_properties = <<>>
    /\ call = <<>>
    /\ result = "none"
    /\ config_file = <<>>
    /\ wire = <<>>
    /\ FetchOff

IdentOff ==
    /\ id_args = <<>>
    /\ id_out = <<>>

CapOff ==
    /\ cap_pc = "off"
    /\ cap_n = 0
    /\ first = <<>>
    /\ second = <<>>

-----------------------------------------------------------------------------
(* src/bot.py *)

Range(q) == {q[j] : j \in 1..Len(q)}

Init ==
    /\ now = 0
    /\ max_listings \in 0..MaxCap
    /\ chat_id \in BOOLEAN
    /\ store = <<>>
    /\ running = NoTask
    /\ pc = [t \in Tasks |-> "idle"]
    /\ properties = [t \in Tasks |-> <<>>]
    /\ pos = [t \in Tasks |-> 0]
    /\ new_count = [t \in Tasks |-> 0]
    /\ new_properties = [t \in Tasks |-> <<>>]
    /\ k = [t \in Tasks |-> 0]
    /\ delivered = {}
    /\ left = {}
    /\ aged = [t \in Tasks |-> {}]
    /\ cap_pc = "off"
    /\ cap_n = 0
    /\ first = <<>>
    /\ second = <<>>
    /\ ScraperOff
    /\ IdentOff

\* the clock advances, while no coroutine holds the event loop (a synchronous
\* run takes seconds, a clock step is days)
Tick ==
    /\ running = NoTask
    /\ now + ClockStep <= MaxTicks * ClockStep
    /\ now' = now + ClockStep
    /\ UNCHANGED <<scenario, max_listings, chat_id, store, running, pc, properties, pos,
                   new_count, new_properties, k, delivered, left, aged>>

\* a batch coroutine is created and gets the event loop
Begin(t) ==
    /\ running = NoTask
    /\ pc[t] = "idle"
    /\ running' = t
    /\ pc' = [pc EXCEPT ![t] = "scrape"]
    /\ UNCHANGED <<scenario, now, max_listings, chat_id, store, properties, pos, new_count,
                   new_properties, k, delivered, left, aged>>

\* setup_scheduler: the daily cron job creates a task running scrape_and_notify
DailyScan == Begin("timer")

\* scan_command: /scan runs scrape_and_notify once, at once, through the job queue
ScanCommand == Begin("scan")

\* properties[:self.max_listings], the listings the loop of line 98 goes through
Capped(t) == SubSeq(new_properties[t], 1, Min(max_listings, Len(new_properties[t])))

\* the listings whose record message the batch of t has handed to the channel
Dispatched(t) == {Capped(t)[j] : j \in 1..Min(k[t], Len(Capped(t)))}

\* the pending rows a batch that ends now leaves undispatched, when it got to
\* the dispatch loop and more rows were pending than the cap
LeftBy(t) ==
    IF /\ k[t] >= 1
       /\ Cardinality(Pending(store) \cup Range(new_properties[t])) > max_listings
    THEN Pending(store) \ Dispatched(t)
    ELSE {}

\* the coroutine returns: its locals are gone and the loop is free
Return(t) ==
    /\ running' = NoTask
    /\ left' = LeftBy(t)
    /\ aged' = [aged EXCEPT ![t] = {}]
    /\ pc' = [pc EXCEPT ![t] = "idle"]
    /\ properties' = [properties EXCEPT ![t] = <<>>]
    /\ pos' = [pos EXCEPT ![t] = 0]
    /\ new_count' = [new_count EXCEPT ![t] = 0]
    /\ new_properties' = [new_properties EXCEPT ![t] = <<>>]
    /\ k' = [k EXCEPT ![t] = 0]

\* scrape_and_notify line 129: properties = self.scraper.scrape_all_sites()
Scrape(t) ==
    /\ running = t
    /\ pc[t] = "scrape"
    /\ \E r \in ScrapeResults : properties' = [properties EXCEPT ![t] = r]
    /\ pos' = [pos EXCEPT ![t] = 1]
    /\ new_count' = [new_count EXCEPT ![t] = 0]
    /\ pc' = [pc EXCEPT ![t] = "upsert"]
    /\ UNCHANGED <<scenario, now, max_listings, chat_id, store, running, new_properties, k,
                   delivered, left, aged>>

\* scrape_and_notify lines 133-136: one iteration of the upsert loop
Upsert(t) ==
    /\ running = t
    /\ pc[t] = "upsert"
    /\ pos[t] <= Len(properties[t])
    /\ LET r == add_property(store, properties[t][pos[t]], now) IN
        /\ store' = r.store
        /\ new_count' = [new_count EXCEPT ![t] = IF r.is_new THEN @ + 1 ELSE @]
    /\ pos' = [pos EXCEPT ![t] = @ + 1]
    /\ UNCHANGED <<scenario, now, max_listings, chat_id, running, pc, properties,
                   new_properties, k, delivered, left, aged>>

\* AgeOut run inside the upsert loop, before the last draft is upserted
AgeOut_early(t) ==
    /\ running = t
    /\ pc[t] = "upsert"
    /\ store' = mark_old_listings_inactive(store, Days, now)
    /\ aged' = [aged EXCEPT ![t] = {i \in 1..Len(store) : store[i].is_active /\ ~store'[i].is_active}]
    /\ pc' = [pc EXCEPT ![t] = "fetch"]
    /\ properties' = [properties EXCEPT ![t] = <<>>]
    /\ pos' = [pos EXCEPT ![t] = 0]
    /\ new_count' = [new_count EXCEPT ![t] = 0]
    /\ UNCHANGED <<scenario, now, max_listings, chat_id, running, new_properties, k,
                   delivered, left>>

\* scrape_and_notify lines 138-141: the loop is over; the counts are logged and
\* the old listings are aged out ('properties' and 'new_count' are not read
\* after line 138: the model drops them here)
AgeOut(t) ==
    /\ running = t
    /\ pc[t] = "upsert"
    /\ pos[t] > Len(properties[t])
    /\ store' = mark_old_listings_inactive(store, Days, now)
    /\ aged' = [aged EXCEPT ![t] = {i \in 1..Len(store) : store[i].is_active /\ ~store'[i].is_active}]
    /\ pc' = [pc EXCEPT ![t] = "fetch"]
    /\ properties' = [properties EXCEPT ![t] = <<>>]
    /\ pos' = [pos EXCEPT ![t] = 0]
    /\ new_count' = [new_count EXCEPT ![t] = 0]
    /\ UNCHANGED <<scenario, now, max_listings, chat_id, running, new_properties, k,
                   delivered, left>>

\* scrape_and_notify line 144
Fetch(t) ==
    /\ running = t
    /\ pc[t] = "fetch"
    /\ new_properties' = [new_properties EXCEPT
                             ![t] = get_new_properties(store, max_listings)]
    /\ pc' = [pc EXCEPT ![t] = "fetched"]
    /\ UNCHANGED <<scenario, now, max_listings, chat_id, store, running, properties, pos,
                   new_count, k, delivered, left, aged>>

\* scrape_and_notify lines 149-150: nothing to notify
NothingNew(t) ==
    /\ running = t
    /\ pc[t] = "fetched"
    /\ new_properties[t] = <<>>
    /\ Return(t)
    /\ UNCHANGED <<scenario, now, max_listings, chat_id, store, delivered>>

\* scrape_and_notify lines 152-158: 'except Exception' logs the error and, when
\* chat_id is set, hands an error message for chat_id to the channel and awaits
\* the answer; when chat_id is not set the function returns
Raise(t) ==
    IF chat_id
    THEN /\ pc' = [pc EXCEPT ![t] = "await_error"]
         /\ running' = NoTask
         /\ properties' = [properties EXCEPT ![t] = <<>>]
         /\ pos' = [pos EXCEPT ![t] = 0]
         /\ new_count' = [new_count EXCEPT ![t] = 0]
         /\ new_properties' = [new_properties EXCEPT ![t] = <<>>]
         /\ aged' = [aged EXCEPT ![t] = {}]
         /\ UNCHANGED <<k, left>>
    ELSE Return(t)

\* line 134: add_property raises (the row is neither inserted nor updated)
UpsertFail(t) ==
    /\ running = t
    /\ pc[t] = "upsert"
    /\ pos[t] <= Len(properties[t])
    /\ Raise(t)
    /\ UNCHANGED <<scenario, now, max_listings, chat_id, store, delivered>>

\* line 141: mark_old_listings_inactive raises (no row is changed)
AgeOutFail(t) ==
    /\ running = t
    /\ pc[t] = "upsert"
    /\ pos[t] > Len(properties[t])
    /\ Raise(t)
    /\ UNCHANGED <<scenario, now, max_listings, chat_id, store, delivered>>

\* line 144: get_new_properties raises
FetchFail(t) ==
    /\ running = t
    /\ pc[t] = "fetch"
    /\ Raise(t)
    /\ UNCHANGED <<scenario, now, max_listings, chat_id, store, delivered>>

\* the error message is accepted or refused: either way the coroutine is over
ErrorDone(t) ==
    /\ running = NoTask
    /\ pc[t] = "await_error"
    /\ Return(t)
    /\ UNCHANGED <<scenario, now, max_listings, chat_id, store, delivered>>

\* send_property_notification line 84, in a batch of the timer with no chat_id:
\* 'context' is self.application.bot (setup_scheduler line 280), which has no
\* attribute 'job'; the AttributeError is raised outside the 'try' of line 90
\* and reaches the 'except' of line 152
NoDestination(t) ==
    /\ running = t
    /\ pc[t] = "fetched"
    /\ new_properties[t] # <<>>
    /\ ~(chat_id \/ t = "scan")
    /\ Raise(t)
    /\ UNCHANGED <<scenario, now, max_listings, chat_id, store, delivered>>

\* send_property_notification lines 84-95: the header is handed to the channel
\* and the coroutine awaits the answer
SendHeader(t) ==
    /\ running = t
    /\ pc[t] = "fetched"
    /\ new_properties[t] # <<>>
    /\ chat_id \/ t = "scan"
    /\ pc' = [pc EXCEPT ![t] = "await_header"]
    /\ running' = NoTask
    /\ left' = {}
    /\ aged' = [aged EXCEPT ![t] = {}]
    /\ UNCHANGED <<scenario, now, max_listings, chat_id, store, properties, pos, new_count,
                   new_properties, k, delivered>>

\* the channel accepts the header: the coroutine resumes at the loop of line 98
HeaderOk(t) ==
    /\ running = NoTask
    /\ pc[t] = "await_header"
    /\ running' = t
    /\ pc' = [pc EXCEPT ![t] = "loop"]
    /\ k' = [k EXCEPT ![t] = 1]
    /\ UNCHANGED <<scenario, now, max_listings, chat_id, store, properties, pos, new_count,
                   new_properties, delivered, left, aged>>

\* send_message raises: 'except Exception' (line 120) logs, both functions return
Failed(t) ==
    /\ running = NoTask
    /\ Return(t)
    /\ UNCHANGED <<scenario, now, max_listings, chat_id, store, delivered>>

HeaderFail(t) ==
    /\ pc[t] = "await_header"
    /\ Failed(t)

\* SendRecord with mark_as_notified called before the message is sent
SendRecord_mark_first(t) ==
    /\ running = t
    /\ pc[t] = "loop"
    /\ k[t] <= Len(Capped(t))
    /\ store' = mark_as_notified(store, Capped(t)[k[t]])
    /\ pc' = [pc EXCEPT ![t] = "await_record"]
    /\ running' = NoTask
    /\ UNCHANGED <<scenario, now, max_listings, chat_id, properties, pos, new_count,
                   new_properties, k, delivered, left, aged>>

\* lines 98-106: the message of the next listing is handed to the channel
SendRecord(t) ==
    /\ running = t
    /\ pc[t] = "loop"
    /\ k[t] <= Len(Capped(t))
    /\ pc' = [pc EXCEPT ![t] = "await_record"]
    /\ running' = NoTask
    /\ UNCHANGED <<scenario, now, max_listings, chat_id, store, properties, pos, new_count,
                   new_properties, k, delivered, left, aged>>

\* the channel accepts the record message
RecordOk(t) ==
    /\ running = NoTask
    /\ pc[t] = "await_record"
    /\ running' = t
    /\ pc' = [pc EXCEPT ![t] = "mark"]
    /\ delivered' = delivered \cup {Capped(t)[k[t]]}
    /\ UNCHANGED <<scenario, now, max_listings, chat_id, store, properties, pos, new_count,
                   new_properties, k, left, aged>>

\* the channel refuses the record message
RecordFail(t) ==
    /\ pc[t] = "await_record"
    /\ Failed(t)

\* line 109: self.db.mark_as_notified(prop.id)
MarkNotified(t) ==
    /\ running = t
    /\ pc[t] = "mark"
    /\ store' = mark_as_notified(store, Capped(t)[k[t]])
    /\ k' = [k EXCEPT ![t] = @ + 1]
    /\ pc' = [pc EXCEPT ![t] = "loop"]
    /\ UNCHANGED <<scenario, now, max_listings, chat_id, running, properties, pos,
                   new_count, new_properties, delivered, left, aged>>

\* line 109: mark_as_notified raises (the row is not changed); 'except
\* Exception' (line 120) logs, both functions return
MarkFail(t) ==
    /\ running = t
    /\ pc[t] = "mark"
    /\ Return(t)
    /\ UNCHANGED <<scenario, now, max_listings, chat_id, store, delivered>>

\* lines 111-118: the loop is over and there is an overflow to report
SendOverflow(t) ==
    /\ running = t
    /\ pc[t] = "loop"
    /\ k[t] > Len(Capped(t))
    /\ Len(new_properties[t]) > max_listings
    /\ pc' = [pc EXCEPT ![t] = "await_overflow"]
    /\ running' = NoTask
    /\ UNCHANGED <<scenario, now, max_listings, chat_id, store, properties, pos, new_count,
                   new_properties, k, delivered, left, aged>>

\* the overflow message is accepted or refused: either way the function returns
OverflowDone(t) ==
    /\ running = NoTask
    /\ pc[t] = "await_overflow"
    /\ Return(t)
    /\ UNCHANGED <<scenario, now, max_listings, chat_id, store, delivered>>

\* the loop is over and there is no overflow
Finish(t) ==
    /\ running = t
    /\ pc[t] = "loop"
    /\ k[t] > Len(Capped(t))
    /\ Len(new_properties[t]) <= max_listings
    /\ Return(t)
    /\ UNCHANGED <<scenario, now, max_listings, chat_id, store, delivered>>

Step(t) ==
    \/ Scrape(t)
    \/ Upsert(t)
    \/ UpsertFail(t)
    \/ AgeOut(t)
    \/ AgeOutFail(t)
    \/ Fetch(t)
    \/ FetchFail(t)
    \/ ErrorDone(t)
    \/ NothingNew(t)
    \/ NoDestination(t)
    \/ SendHeader(t)
    \/ HeaderOk(t)
    \/ HeaderFail(t)
    \/ SendRecord(t)
    \/ RecordOk(t)
    \/ RecordFail(t)
    \/ MarkNotified(t)
    \/ MarkFail(t)
    \/ SendOverflow(t)
    \/ OverflowDone(t)
    \/ Finish(t)

Next ==
    \/ Tick
    \/ DailyScan
    \/ ScanCommand
    \/ \E t \in Tasks : Step(t)

Spec == Init /\ [][Next]_vars

-----------------------------------------------------------------------------
(* The bot under the fairness of its environment: the event loop runs a        *)
(* coroutine that is ready, triggers keep coming, and the channel does not     *)
(* refuse a message for ever, and the store stops failing.                     *)

\* the steps a coroutine takes while it holds the event loop
LoopStep(t) ==
    \/ Scrape(t)
    \/ Upsert(t)
    \/ UpsertFail(t)
    \/ AgeOut(t)
    \/ AgeOutFail(t)
    \/ Fetch(t)
    \/ FetchFail(t)
    \/ NothingNew(t)
    \/ NoDestination(t)
    \/ SendHeader(t)
    \/ SendRecord(t)
    \/ MarkNotified(t)
    \/ MarkFail(t)
    \/ SendOverflow(t)
    \/ Finish(t)

\* the event loop runs the coroutine that holds it and hands the answer to an
\* overflow or error message to the coroutine that awaits it
Scheduled == \E t \in Tasks : LoopStep(t) \/ OverflowDone(t) \/ ErrorDone(t)

\* the channel accepts a header / a record message
HeaderAccepted == \E t \in Tasks : HeaderOk(t)
RecordAccepted == \E t \in Tasks : RecordOk(t)

\* a store operation raises
StoreFailure ==
    \E t \in Tasks : UpsertFail(t) \/ AgeOutFail(t) \/ FetchFail(t) \/ MarkFail(t)

FairSpec ==
    /\ Init
    /\ [][Next]_vars
    /\ WF_vars(Scheduled)
    /\ SF_vars(ScanCommand)
    /\ SF_vars(HeaderAccepted)
    /\ SF_vars(RecordAccepted)
    /\ <>[][~StoreFailure]_vars

-----------------------------------------------------------------------------
(* The bot when its batches do not overlap and the store does not fail: a      *)
(* trigger starts a batch only while no batch is in progress, and no store     *)
(* operation raises.                                                           *)

\* a trigger that comes while no batch is in progress
SerialBegin(t) ==
    /\ \A u \in Tasks : pc[u] = "idle"
    /\ Begin(t)

\* the steps of a batch none of whose store operations raises
SerialStep(t) ==
    \/ Scrape(t)
    \/ Upsert(t)
    \/ AgeOut(t)
    \/ Fetch(t)
    \/ NothingNew(t)
    \/ NoDestination(t)
    \/ SendHeader(t)
    \/ HeaderOk(t)
    \/ HeaderFail(t)
    \/ SendRecord(t)
    \/ RecordOk(t)
    \/ RecordFail(t)
    \/ MarkNotified(t)
    \/ SendOverflow(t)
    \/ OverflowDone(t)
    \/ Finish(t)

SerialNext ==
    \/ Tick
    \/ \E t \in Tasks : SerialBegin(t)
    \/ \E t \in Tasks : SerialStep(t)

SerialSpec == Init /\ [][SerialNext]_vars

-----------------------------------------------------------------------------
(* Cap scenario (src/database.py): n new drafts are upserted into an empty     *)
(* store, get_new_properties(cap) is called, the rows it returned are marked   *)
(* notified, and get_new_properties(cap) is called again.                      *)

\* the i-th draft of the scenario: i distinct listings of site A
CapDraft(i) == Draft("u" \o ToString(i), "t", "A", "p1")

CapInit ==
    /\ now = 0
    /\ max_listings \in 0..MaxCap
    /\ chat_id \in BOOLEAN
    /\ store = <<>>
    /\ running = NoTask
    /\ pc = [t \in Tasks |-> "idle"]
    /\ properties = [t \in Tasks |-> <<>>]
    /\ pos = [t \in Tasks |-> 0]
    /\ new_count = [t \in Tasks |-> 0]
    /\ new_properties = [t \in Tasks |-> <<>>]
    /\ k = [t \in Tasks |-> 0]
    /\ delivered = {}
    /\ left = {}
    /\ aged = [t \in Tasks |-> {}]
    /\ cap_pc = "add"
    /\ cap_n \in 0..MaxNew
    /\ first = <<>>
    /\ second = <<>>
    /\ ScraperOff
    /\ IdentOff

\* the variables of the bot, which the scenario leaves alone
bot == <<now, max_listings, chat_id, running, pc, properties, pos, new_count,
         new_properties, k, delivered, left, aged>>

\* the bot at rest, with an empty store
BotOff ==
    /\ now = 0
    /\ max_listings = 0
    /\ chat_id = FALSE
    /\ store = <<>>
    /\ running = NoTask
    /\ pc = [t \in Tasks |-> "idle"]
    /\ properties = [t \in Tasks |-> <<>>]
    /\ pos = [t \in Tasks |-> 0]
    /\ new_count = [t \in Tasks |-> 0]
    /\ new_properties = [t \in Tasks |-> <<>>]
    /\ k = [t \in Tasks |-> 0]
    /\ delivered = {}
    /\ left = {}
    /\ aged = [t \in Tasks |-> {}]

\* add_property for the next new draft
CapAdd ==
    /\ cap_pc = "add"
    /\ Len(store) < cap_n
    /\ store' = add_property(store, CapDraft(Len(store) + 1), now).store
    /\ UNCHANGED <<bot, scraper, ident, cap_pc, cap_n, first, second>>

\* the first get_new_properties(cap)
CapFetchFirst ==
    /\ cap_pc = "add"
    /\ Len(store) = cap_n
    /\ first' = get_new_properties(store, max_listings)
    /\ cap_pc' = "mark"
    /\ UNCHANGED <<bot, scraper, ident, store, cap_n, second>>

\* the rows of the first result that are not marked yet
Unmarked == SelectSeq(first, LAMBDA i : ~store[i].notified)

\* mark_as_notified for the next row of the first result
CapMark ==
    /\ cap_pc = "mark"
    /\ Unmarked # <<>>
    /\ store' = mark_as_notified(store, Head(Unmarked))
    /\ UNCHANGED <<bot, scraper, ident, cap_pc, cap_n, first, second>>

\* the second get_new_properties(cap), once all of the first result is marked
CapFetchSecond ==
    /\ cap_pc = "mark"
    /\ Unmarked = <<>>
    /\ second' = get_new_properties(store, max_listings)
    /\ cap_pc' = "done"
    /\ UNCHANGED <<bot, scraper, ident, store, cap_n, first>>

CapNext ==
    \/ CapAdd
    \/ CapFetchFirst
    \/ CapMark
    \/ CapFetchSecond

CapSpec == CapInit /\ [][CapNext]_vars

-----------------------------------------------------------------------------
(* src/scraper.py: the page extractor.  A text is the tuple of its characters, *)
(* a url the tuple of its parts (scheme, authority, path).                     *)

\* a str as one string
RECURSIVE Str(_)
Str(text) == IF text = <<>> THEN "" ELSE Head(text) \o Str(Tail(text))

\* str.split(): the words of a text; 'word' is the word read so far
RECURSIVE split(_, _)
split(text, word) ==
    IF text = <<>>
    THEN IF word = <<>> THEN <<>> ELSE <<word>>
    ELSE IF Head(text) = " "
         THEN (IF word = <<>> THEN <<>> ELSE <<word>>) \o split(Tail(text), <<>>)
         ELSE split(Tail(text), Append(word, Head(text)))

\* ' '.join(words)
RECURSIVE join(_)
join(words) ==
    IF words = <<>> THEN <<>>
    ELSE IF Len(words) = 1 THEN words[1]
    ELSE words[1] \o <<" ">> \o join(Tail(words))

\* _clean_text that returns the text as it is
clean_text_raw(text) == text

\* _clean_text: '' for a falsy text, else ' '.join(text.strip().split())
clean_text(text) == IF text = <<>> THEN <<>> ELSE join(split(text, <<>>))

\* the sentinel 'N/A'
NA == <<"N", "/", "A">>

\* what select_one returns: no element (None), an element with its text, an
\* anchor with or without an href
None == [exists |-> FALSE, text |-> <<>>, has_href |-> FALSE, href |-> <<>>]
Elem(text) == [exists |-> TRUE, text |-> text, has_href |-> FALSE, href |-> <<>>]
Anchor(href) == [exists |-> TRUE, text |-> <<>>, has_href |-> TRUE, href |-> href]

\* the selectors the pages are written for
Css == {"h2", ".price", ".loc", "a", ".beds", ".area"}

\* a listing container: for each selector the first element it matches
Container(title, price, location, link, bedrooms, area) ==
    [sel \in Css |->
        CASE sel = "h2" -> title
          [] sel = ".price" -> price
          [] sel = ".loc" -> location
          [] sel = "a" -> link
          [] sel = ".beds" -> bedrooms
          [] sel = ".area" -> area]

Messy == <<" ", "a", " ", " ", "b", " ">>
Blank == <<" ">>
AbsUrl == <<"http:", "//h", "/p1">>
RelUrl == <<"/p2">>

\* the containers a page is made of
Good == Container(Elem(Messy), Elem(<<"9">>), Elem(<<"m">>), Anchor(AbsUrl),
                  Elem(<<"2">>), Elem(<<"7">>))
Bare == Container(Elem(<<"c">>), None, None, Anchor(RelUrl), None, None)
BlankPrice == Container(Elem(<<"d">>), Elem(Blank), None, Anchor(AbsUrl),
                        Elem(Blank), Elem(<<"7">>))
NoTitle == Container(None, Elem(<<"9">>), None, Anchor(AbsUrl), None, None)
BlankTitle == Container(Elem(Blank), Elem(<<"9">>), None, Anchor(AbsUrl), None, None)
NoLink == Container(Elem(<<"e">>), Elem(<<"9">>), None, None, None, None)
NoHref == Container(Elem(<<"f">>), Elem(<<"9">>), None, Elem(<<>>), None, None)
EmptyHref == Container(Elem(<<"g">>), Elem(<<"9">>), None, Anchor(<<>>), None, None)

Containers == {Good, Bare, BlankPrice, NoTitle, BlankTitle, NoLink, NoHref, EmptyHref}

\* the keys of a selector map
Keys == {"listing_container", "title", "price", "location", "link", "bedrooms", "area"}

FullSelectors ==
    [listing_container |-> "div", title |-> "h2", price |-> ".price",
     location |-> ".loc", link |-> "a", bedrooms |-> ".beds", area |-> ".area"]

\* a selector map with one key absent, with one selector empty
Without(key) == [x \in Keys \ {key} |-> FullSelectors[x]]
Emptied(key) == [FullSelectors EXCEPT ![key] = ""]

SelectorMaps == {FullSelectors} \cup {Without(x) : x \in Keys} \cup {Emptied(x) : x \in Keys}

\* an entry of config['sites']
Site(name, enabled, selectors) ==
    [name |-> name,
     base_url |-> <<"http:", "//" \o name>>,
     search_url |-> <<"http:", "//" \o name, "/rent">>,
     selectors |-> selectors,
     enabled |-> enabled]

\* d[key] = value on a dict, and a dict without one of its keys
Put(d, key, value) == [x \in DOMAIN d \cup {key} |-> IF x = key THEN value ELSE d[x]]
Drop(d, key) == [x \in DOMAIN d \ {key} |-> d[x]]

\* the entries a site may have in the document: 'enabled' true, false or absent
Flagged(name, selectors) ==
    {Site(name, e, selectors) : e \in BOOLEAN}
        \cup {Drop(Site(name, TRUE, selectors), "enabled")}

Settings == [user_agent |-> "ua", delay_between_requests |-> "2s"]

\* json.dump(self.config, f): the document written for a configuration; a
\* Python bool is written as the JSON literal true or false
dump_site(site) ==
    [x \in DOMAIN site |->
        IF x = "enabled" THEN (IF site[x] THEN "true" ELSE "false") ELSE site[x]]
dump(cfg) ==
    [scraping_settings |-> cfg.scraping_settings,
     sites |-> [i \in 1..Len(cfg.sites) |-> dump_site(cfg.sites[i])]]

\* url.startswith('http')
startswith_http(url) == url # <<>> /\ Head(url) = "http:"

\* urljoin(base, url) for a url that is a path from the root: the scheme and
\* the authority of the base, then the path; the url itself when the base is empty
urljoin(base, url) == IF base = <<>> THEN url ELSE SubSeq(base, 1, 2) \o url

\* listing_element.select_one(selector): the first match or None; raised is
\* true when the library rejects the selector (an empty selector)
select_one(listing_element, selector) ==
    [raised |-> selector = "" /\ select_empty_raises,
     elem |-> IF selector \in DOMAIN listing_element
              THEN listing_element[selector] ELSE None]

\* _extract_property_data: <<>> for None, else the one record.  Every exception
\* (a missing key, a rejected selector) is caught at line 106 and gives None.
extract_property_data(listing_element, site_config) ==
    IF "selectors" \notin DOMAIN site_config THEN <<>>
    ELSE
    LET selectors == site_config.selectors
        Has(key) == key \in DOMAIN selectors
        Get(key) == IF Has(key) THEN selectors[key] ELSE ""
        Field(found) == IF found.elem.exists THEN clean_text(found.elem.text) ELSE NA
    IN
    IF ~Has("title") \/ select_one(listing_element, selectors["title"]).raised
    THEN <<>>
    ELSE
    LET title_elem == select_one(listing_element, selectors["title"]).elem
        title == IF title_elem.exists THEN clean_text(title_elem.text) ELSE <<>>
    IN
    IF title = <<>> THEN <<>>
    ELSE IF ~Has("price") \/ select_one(listing_element, selectors["price"]).raised
    THEN <<>>
    ELSE IF ~Has("location") \/ select_one(listing_element, selectors["location"]).raised
    THEN <<>>
    ELSE IF ~Has("link") \/ select_one(listing_element, selectors["link"]).raised
    THEN <<>>
    ELSE
    LET link_elem == select_one(listing_element, selectors["link"]).elem
        href == IF link_elem.exists /\ link_elem.has_href THEN link_elem.href ELSE <<>>
        relative == href # <<>> /\ ~startswith_http(href)
    IN
    IF relative /\ "base_url" \notin DOMAIN site_config THEN <<>>
    ELSE
    LET url == IF relative THEN urljoin(site_config.base_url, href) ELSE href IN
    IF url = <<>> THEN <<>>
    ELSE IF select_one(listing_element, Get("bedrooms")).raised THEN <<>>
    ELSE IF select_one(listing_element, Get("area")).raised THEN <<>>
    ELSE IF "name" \notin DOMAIN site_config THEN <<>>
    ELSE
    <<[external_id |-> generate_id(Str(url), Str(title)),
       source |-> site_config.name,
       title |-> Str(title),
       price |-> Str(Field(select_one(listing_element, selectors["price"]))),
       location |-> Str(Field(select_one(listing_element, selectors["location"]))),
       bedrooms |-> Str(Field(select_one(listing_element, Get("bedrooms")))),
       area |-> Str(Field(select_one(listing_element, Get("area")))),
       url |-> Str(url),
       description |-> ""]>>

-----------------------------------------------------------------------------
(* src/scraper.py: scrape_all_sites and scrape_site *)

\* what a GET of a search_url yields: a page, given by the elements its listing
\* containers are, or a failure raised as requests.RequestException
FetchErrors == {"timeout", "connection_error", "http_error"}
Failure(kind) == [kind |-> kind, listing |-> <<>>]
Page(listing) == [kind |-> "ok", listing |-> listing]

\* site_config.get('enabled', True): a site without the flag counts as enabled
Enabled_by_default(site_config) ==
    IF "enabled" \in DOMAIN site_config THEN site_config.enabled ELSE TRUE

\* site_config.get('enabled', False)
Enabled(site_config) == "enabled" \in DOMAIN site_config /\ site_config.enabled

\* what goes out for the site at position no, for the caller 'by': line 130,
\* time.sleep(self.settings['delay_between_requests']), and line 132,
\* self.session.get(site_config['search_url'], timeout=30)
Sleep(by, no, cfg) ==
    [kind |-> "sleep", by |-> by, no |-> no,
     delay |-> cfg.scraping_settings.delay_between_requests, url |-> <<>>]
Get(by, no, cfg) ==
    [kind |-> "get", by |-> by, no |-> no,
     delay |-> "", url |-> cfg.sites[no].search_url]

\* the site the loop of scrape_all_sites is at
CurrentSite == config.sites[site_no]

\* soup.select(site_config['selectors']['listing_container']) raises: the key is
\* absent, or the selector is empty and the library rejects it
SelectRaises ==
    IF "listing_container" \notin DOMAIN CurrentSite.selectors
    THEN TRUE
    ELSE CurrentSite.selectors.listing_container = "" /\ select_empty_raises

\* listing_containers: the elements the container selector matches
ListingContainers ==
    IF CurrentSite.selectors.listing_container = "div"
    THEN web[CurrentSite.name].listing
    ELSE <<>>

\* the variables the scraper leaves alone
outside_scraper ==
    <<bot, store, ident, cap_pc, cap_n, first, second, call, result, config_file,
      f_pc, f_site>>

\* the pages of a one-site rule set, the responses of a two-site rule set
Pages == SeqsUpTo(Containers, MaxContainers)
Responses ==
    {Failure(x) : x \in FetchErrors} \cup {Page(d) : d \in SeqsUpTo({Good, NoTitle}, MaxPage)}

\* one site with any selector map and any page; or two sites, each enabled,
\* disabled or without the flag, with or without a container selector, and any
\* response
ScrapeInit ==
    /\ BotOff
    /\ CapOff
    /\ IdentOff
    /\ call = <<>>
    /\ result = "none"
    /\ select_empty_raises \in BOOLEAN
    /\ \/ /\ \E m \in SelectorMaps :
               config = [scraping_settings |-> Settings, sites |-> <<Site("A", TRUE, m)>>]
          /\ \E d \in Pages : web = [n \in {"A"} |-> Page(d)]
       \/ /\ \E ma, mb \in {FullSelectors, Without("listing_container")} :
             \E a \in Flagged("A", ma), b \in Flagged("B", mb) :
               config = [scraping_settings |-> Settings, sites |-> <<a, b>>]
          /\ web \in [{"A", "B"} -> Responses]
    /\ s_pc = "site"
    /\ site_no = 1
    /\ listing_no = 0
    /\ site_properties = <<>>
    /\ all_properties = <<>>
    /\ config_file = dump(config)
    /\ wire = <<>>
    /\ FetchOff

\* scrape_site lines 122-124: a site that is not enabled yields nothing
SkipSite ==
    /\ s_pc = "site"
    /\ site_no <= Len(config.sites)
    /\ ~Enabled(CurrentSite)
    /\ site_no' = site_no + 1
    /\ UNCHANGED <<outside_scraper, config, web, select_empty_raises, s_pc, listing_no,
                   site_properties, all_properties, wire>>

\* scrape_site lines 120-131: properties = [], the site is enabled
EnterSite ==
    /\ s_pc = "site"
    /\ site_no <= Len(config.sites)
    /\ Enabled(CurrentSite)
    /\ s_pc' = "get"
    /\ site_properties' = <<>>
    /\ wire' = Append(wire, Sleep("call", site_no, config))
    /\ UNCHANGED <<outside_scraper, config, web, select_empty_raises, site_no, listing_no,
                   all_properties>>

\* SiteAbort: a failing site that ends the whole call
SiteAbort ==
    /\ s_pc' = "done"
    /\ listing_no' = 0
    /\ UNCHANGED <<site_no, site_properties, all_properties>>

\* scrape_site lines 147-153 and scrape_all_sites lines 165-166: the site
\* returns its properties, which are appended, and the loop goes on
LeaveSite ==
    /\ all_properties' = all_properties \o site_properties
    /\ site_properties' = <<>>
    /\ listing_no' = 0
    /\ site_no' = site_no + 1
    /\ s_pc' = "site"

\* lines 132-133: the GET times out, cannot connect or gets an error status;
\* 'except requests.RequestException' logs
GetFails ==
    /\ s_pc = "get"
    /\ web[CurrentSite.name].kind \in FetchErrors
    /\ LeaveSite
    /\ wire' = Append(wire, Get("call", site_no, config))
    /\ UNCHANGED <<outside_scraper, config, web, select_empty_raises>>

\* lines 135-138: the page is there and selecting the containers raises;
\* 'except Exception' logs
SelectFails ==
    /\ s_pc = "get"
    /\ web[CurrentSite.name].kind = "ok"
    /\ SelectRaises
    /\ LeaveSite
    /\ wire' = Append(wire, Get("call", site_no, config))
    /\ UNCHANGED <<outside_scraper, config, web, select_empty_raises>>

\* lines 132-140: the page is there and its containers are selected
SelectContainers ==
    /\ s_pc = "get"
    /\ web[CurrentSite.name].kind = "ok"
    /\ ~SelectRaises
    /\ s_pc' = "extract"
    /\ listing_no' = 1
    /\ wire' = Append(wire, Get("call", site_no, config))
    /\ UNCHANGED <<outside_scraper, config, web, select_empty_raises, site_no,
                   site_properties, all_properties>>

\* lines 142-145: one iteration of the loop over the containers
ExtractListing ==
    /\ s_pc = "extract"
    /\ listing_no <= Len(ListingContainers)
    /\ site_properties' = site_properties \o
           extract_property_data(ListingContainers[listing_no], CurrentSite)
    /\ listing_no' = listing_no + 1
    /\ UNCHANGED <<outside_scraper, config, web, select_empty_raises, s_pc, site_no,
                   all_properties, wire>>

\* lines 152-153: the loop is over
SiteDone ==
    /\ s_pc = "extract"
    /\ listing_no > Len(ListingContainers)
    /\ LeaveSite
    /\ UNCHANGED <<outside_scraper, config, web, select_empty_raises, wire>>

\* scrape_all_sites lines 168-169: every site is done
AllDone ==
    /\ s_pc = "site"
    /\ site_no > Len(config.sites)
    /\ s_pc' = "done"
    /\ UNCHANGED <<outside_scraper, config, web, select_empty_raises, site_no, listing_no,
                   site_properties, all_properties, wire>>

ScrapeNext ==
    \/ SkipSite
    \/ EnterSite
    \/ GetFails
    \/ SelectFails
    \/ SelectContainers
    \/ ExtractListing
    \/ SiteDone
    \/ AllDone

ScrapeSpec == ScrapeInit /\ [][ScrapeNext]_vars

-----------------------------------------------------------------------------
(* Rule set scenario (src/scraper.py): enable_site, disable_site and           *)
(* add_custom_site are called, in any order, on a configuration of two sites.  *)

\* the names a site is asked for by; no site is ever called "Z"
SiteNames == {"A", "B", "C", "Z"}

\* the site_config dicts add_custom_site is given: one with neither 'enabled'
\* nor 'scraper_type', one with both and the name of an existing site, one
\* without 'selectors'
NewSites ==
    {Drop(Site("C", TRUE, FullSelectors), "enabled"),
     Put(Site("A", FALSE, FullSelectors), "scraper_type", "api"),
     Drop(Site("C", TRUE, FullSelectors), "selectors")}

\* the entries the document starts with: 'enabled' true, false or absent
Entries(name) == Flagged(name, FullSelectors)

\* the position of the first site of that name, 0 when there is none:
\* 'for site in self.config['sites']: if site['name'] == site_name'
first_named(sites, site_name) ==
    IF \E i \in 1..Len(sites) : sites[i].name = site_name
    THEN CHOOSE i \in 1..Len(sites) :
             /\ sites[i].name = site_name
             /\ \A j \in 1..(i - 1) : sites[j].name # site_name
    ELSE 0

\* set_enabled_everywhere: the flag is set on every site
set_enabled_everywhere(cfg, site_name, flag) ==
    [cfg EXCEPT !.sites = [i \in 1..Len(cfg.sites) |-> Put(cfg.sites[i], "enabled", flag)]]

\* lines 201-203 and 216-218: site['enabled'] = flag on the first site of that name
set_enabled(cfg, site_name, flag) ==
    [cfg EXCEPT !.sites[first_named(cfg.sites, site_name)] = Put(@, "enabled", flag)]

\* lines 178-190: the required fields, then the defaults, of a site_config
required_fields == {"name", "base_url", "search_url", "selectors"}
with_defaults(site_config) ==
    LET e == IF "enabled" \in DOMAIN site_config
             THEN site_config ELSE Put(site_config, "enabled", TRUE)
    IN  IF "scraper_type" \in DOMAIN e THEN e ELSE Put(e, "scraper_type", "custom")

\* the variables the operations on the rule set leave alone
outside_config ==
    <<bot, store, ident, cap_pc, cap_n, first, second, web, select_empty_raises,
      s_pc, site_no, listing_no, site_properties, all_properties, wire, f_pc, f_site>>

ConfigInit ==
    /\ BotOff
    /\ CapOff
    /\ IdentOff
    /\ \E a \in Entries("A"), b \in Entries("B") :
           config = [scraping_settings |-> Settings, sites |-> <<a, b>>]
    /\ config_file = dump(config)
    /\ web = <<>>
    /\ select_empty_raises = FALSE
    /\ s_pc = "off"
    /\ site_no = 0
    /\ listing_no = 0
    /\ site_properties = <<>>
    /\ all_properties = <<>>
    /\ call = <<>>
    /\ result = "none"
    /\ wire = <<>>
    /\ FetchOff

\* lines 199-212 and 214-227: the flag of the first site of that name is set,
\* the document is written and True returned; with no such site, False
SetSite(operation, flag) ==
    \E site_name \in SiteNames :
        /\ call' = <<operation, site_name>>
        /\ IF first_named(config.sites, site_name) # 0
           THEN /\ config' = set_enabled(config, site_name, flag)
                /\ config_file' = dump(config')
                /\ result' = "True"
           ELSE /\ result' = "False"
                /\ UNCHANGED <<config, config_file>>
        /\ UNCHANGED outside_config

DisableSite == SetSite("disable_site", FALSE)
EnableSite == SetSite("enable_site", TRUE)

\* lines 171-197: ValueError for a missing required field; else the defaults
\* are added, the entry is appended and the document is written
AddCustomSite ==
    \E site_config \in NewSites :
        /\ Len(config.sites) < MaxSites
        /\ call' = <<"add_custom_site", site_config>>
        /\ IF required_fields \subseteq DOMAIN site_config
           THEN /\ config' = [config EXCEPT !.sites = Append(@, with_defaults(site_config))]
                /\ config_file' = dump(config')
                /\ result' = "None"
           ELSE /\ result' = "ValueError"
                /\ UNCHANGED <<config, config_file>>
        /\ UNCHANGED outside_config

ConfigNext ==
    \/ DisableSite
    \/ EnableSite
    \/ AddCustomSite

ConfigSpec == ConfigInit /\ [][ConfigNext]_vars

-----------------------------------------------------------------------------
(* Fetch scenario (src/scraper.py, src/bot.py): the timer and /scan start      *)
(* batches on the one event loop; each batch calls scrape_all_sites, which is  *)
(* synchronous (time.sleep and session.get block the loop), and gives the loop *)
(* up only afterwards, when it awaits the channel.                             *)

\* the variables the fetch scenario leaves alone
outside_fetch ==
    <<now, max_listings, chat_id, store, pc, properties, pos, new_count, new_properties,
      k, delivered, left, aged, cap_pc, cap_n, first, second, ident, web,
      select_empty_raises, s_pc, site_no, listing_no, site_properties, all_properties,
      call, result, config_file>>

\* the calls of scrape_all_sites begun so far
Begun == Cardinality({j \in 1..Len(wire) : wire[j].kind = "begin"})

FetchInit ==
    /\ BotOff
    /\ CapOff
    /\ IdentOff
    /\ \E a \in Entries("A"), b \in Entries("B") :
           config = [scraping_settings |-> Settings, sites |-> <<a, b>>]
    /\ config_file = dump(config)
    /\ web = <<>>
    /\ select_empty_raises = FALSE
    /\ s_pc = "off"
    /\ site_no = 0
    /\ listing_no = 0
    /\ site_properties = <<>>
    /\ all_properties = <<>>
    /\ call = <<>>
    /\ result = "none"
    /\ wire = <<>>
    /\ FetchOff

\* FetchBegin for a batch that is started whether or not the loop is free
FetchBegin_threaded(t) ==
    /\ f_pc[t] = "idle"
    /\ Begun < MaxCalls
    /\ running' = t
    /\ f_pc' = [f_pc EXCEPT ![t] = "site"]
    /\ f_site' = [f_site EXCEPT ![t] = 1]
    /\ wire' = Append(wire, [kind |-> "begin", by |-> t, no |-> 0, delay |-> "", url |-> <<>>])
    /\ UNCHANGED <<outside_fetch, config>>

\* bot.py line 129, scraper.py lines 162-164: the coroutine of the trigger t
\* gets the event loop and calls scrape_all_sites
FetchBegin(t) ==
    /\ running = NoTask
    /\ f_pc[t] = "idle"
    /\ Begun < MaxCalls
    /\ running' = t
    /\ f_pc' = [f_pc EXCEPT ![t] = "site"]
    /\ f_site' = [f_site EXCEPT ![t] = 1]
    /\ wire' = Append(wire, [kind |-> "begin", by |-> t, no |-> 0, delay |-> "", url |-> <<>>])
    /\ UNCHANGED <<outside_fetch, config>>

\* scraper.py lines 122-124: the site is not enabled
FetchSkip(t) ==
    /\ running = t
    /\ f_pc[t] = "site"
    /\ f_site[t] <= Len(config.sites)
    /\ ~Enabled(config.sites[f_site[t]])
    /\ f_site' = [f_site EXCEPT ![t] = @ + 1]
    /\ UNCHANGED <<outside_fetch, config, running, f_pc, wire>>

\* line 130: time.sleep(delay) for an enabled site
FetchSleep(t) ==
    /\ running = t
    /\ f_pc[t] = "site"
    /\ f_site[t] <= Len(config.sites)
    /\ Enabled(config.sites[f_site[t]])
    /\ f_pc' = [f_pc EXCEPT ![t] = "sleep"]
    /\ wire' = Append(wire, Sleep(t, f_site[t], config))
    /\ UNCHANGED <<outside_fetch, config, running, f_site>>

\* line 132: the sleep is over, session.get sends the request and blocks
FetchRequest(t) ==
    /\ running = t
    /\ f_pc[t] = "sleep"
    /\ f_pc' = [f_pc EXCEPT ![t] = "get"]
    /\ wire' = Append(wire, Get(t, f_site[t], config))
    /\ UNCHANGED <<outside_fetch, config, running, f_site>>

\* lines 132-153, 165-166: the response or the failure is there; the site is
\* done and the loop goes on
FetchResponse(t) ==
    /\ running = t
    /\ f_pc[t] = "get"
    /\ f_pc' = [f_pc EXCEPT ![t] = "site"]
    /\ f_site' = [f_site EXCEPT ![t] = @ + 1]
    /\ UNCHANGED <<outside_fetch, config, running, wire>>

\* scraper.py lines 168-169, bot.py lines 131-148: scrape_all_sites returns; the
\* batch goes on to its first await and gives up the loop
FetchReturn(t) ==
    /\ running = t
    /\ f_pc[t] = "site"
    /\ f_site[t] > Len(config.sites)
    /\ f_pc' = [f_pc EXCEPT ![t] = "dispatch"]
    /\ f_site' = [f_site EXCEPT ![t] = 0]
    /\ running' = NoTask
    /\ UNCHANGED <<outside_fetch, config, wire>>

\* the batch is over
FetchEnd(t) ==
    /\ running = NoTask
    /\ f_pc[t] = "dispatch"
    /\ f_pc' = [f_pc EXCEPT ![t] = "idle"]
    /\ UNCHANGED <<outside_fetch, config, running, f_site, wire>>

FetchNext ==
    \E t \in Tasks :
        \/ FetchBegin(t)
        \/ FetchSkip(t)
        \/ FetchSleep(t)
        \/ FetchRequest(t)
        \/ FetchResponse(t)
        \/ FetchReturn(t)
        \/ FetchEnd(t)

FetchSpec == FetchInit /\ [][FetchNext]_vars

-----------------------------------------------------------------------------
(* Identity scenario (src/scraper.py): _generate_id is called for a first      *)
(* (url, title) pair, for a second pair, and for the first pair again.         *)

\* the strings a url or a title is drawn from; some contain the separator
IdStrings == {"a", "a:", ":b", "b"}

\* the strings of IdStrings that contain no ':'
Colonless == {"a", "b"}

IdInit ==
    /\ BotOff
    /\ CapOff
    /\ ScraperOff
    /\ id_args \in (IdStrings \X IdStrings) \X (IdStrings \X IdStrings)
    /\ id_out = <<>>

\* the pair of the next call
NextPair == IF Len(id_out) = 1 THEN id_args[2] ELSE id_args[1]

\* one call of _generate_id
GenerateId ==
    /\ Len(id_out) < Len(id_args) + 1
    /\ id_out' = Append(id_out, generate_id(NextPair[1], NextPair[2]))
    /\ UNCHANGED <<bot, store, scraper, cap_pc, cap_n, first, second, id_args>>

IdSpec == IdInit /\ [][GenerateId]_vars

-----------------------------------------------------------------------------
(* Properties *)

InProgress(t) == pc[t] # "idle"

\* the step is a store operation or a dispatch of the batch of u: an upsert,
\* the age-out, the fetch, a mark, or a message handed to the channel
BatchOperation(u) ==
    /\ running = u
    /\ \/ pc[u] = "upsert" /\ pos'[u] # pos[u]
       \/ pc[u] = "fetch" /\ pc'[u] = "fetched"
       \/ pc[u] = "mark" /\ pc'[u] = "loop"
       \/ pc'[u] \in {"await_header", "await_record", "await_overflow"}

\* the step is one iteration of the upsert loop of t
UpsertStep(t) == running = t /\ pc[t] = "upsert" /\ pos'[t] = pos[t] + 1

\* the step is the age-out of the batch of t
AgeOutStep(t) == running = t /\ pc[t] = "upsert" /\ pc'[t] = "fetch"

Present(s, eid) == \E i \in 1..Len(s) : s[i].external_id = eid

\* C1: no two scan batches are interleaved: no batch performs a store
\* operation or a dispatch while another batch is in progress.
C1_NoInterleavedBatches ==
    [][\A u \in Tasks : BatchOperation(u) =>
          \A t \in Tasks \ {u} : ~InProgress(t)]_vars

\* C2: a dispatch failure for one listing does not stop the batch: when the
\* channel refuses the message of a listing that is not the last of the batch,
\* the batch goes on with the next listing.
C2_FailureDoesNotStopBatch ==
    [][\A t \in Tasks :
          (pc[t] = "await_record" /\ pc'[t] # "await_record" /\ k[t] < Len(Capped(t)))
              => (pc'[t] \in {"mark", "loop"})]_vars

\* C3: a listing is notified only after the channel has accepted its own record
\* message; a listing whose message was never accepted has notified = false.
C3_NotifiedOnlyAfterDelivery ==
    \A i \in 1..Len(store) : store[i].notified => i \in delivered

\* C3 witness: one listing was delivered and marked, another was handed to the
\* channel, refused or not reached, and is still not notified
C3_Witness ==
    /\ Len(store) = 2
    /\ store[1].notified /\ 1 \in delivered
    /\ ~store[2].notified /\ 2 \notin delivered
    /\ \A t \in Tasks : pc[t] = "idle"

\* C5: add_property on a draft whose external_id is not in the store inserts
\* exactly one row with the draft's fields, notified = false, is_active = true,
\* first_seen = last_seen = now, and returns True; it returns True in no other case.
C5_InsertsOnlyWhenAbsent ==
    [][\A t \in Tasks : UpsertStep(t) =>
          LET d == properties[t][pos[t]]
              n == Len(store)
          IN  IF Present(store, d.external_id)
              THEN new_count'[t] = new_count[t]
              ELSE /\ new_count'[t] = new_count[t] + 1
                   /\ Len(store') = n + 1
                   /\ SubSeq(store', 1, n) = store
                   /\ \A f \in DOMAIN d : store'[n + 1][f] = d[f]
                   /\ store'[n + 1].notified = FALSE
                   /\ store'[n + 1].is_active = TRUE
                   /\ store'[n + 1].first_seen = now
                   /\ store'[n + 1].last_seen = now]_vars

\* C5 witness: the upsert loop has just inserted a second row and counted
\* both rows as new
C5_Witness ==
    \E t \in Tasks :
        /\ pc[t] = "upsert" /\ pos[t] = 3 /\ new_count[t] = 2
        /\ Len(store) = 2
        /\ store[2].external_id = properties[t][2].external_id
        /\ store[2].first_seen = now /\ store[2].last_seen = now

\* the fields a repeat sighting leaves alone
KeptFields ==
    {"id", "external_id", "source", "title", "price", "location", "bedrooms",
     "area", "url", "description", "first_seen", "notified"}

\* C6: upserting a draft whose external_id is already stored returns False,
\* creates no row and changes only last_seen and is_active of the matching
\* row, even when the draft carries other field values.
C6_RepeatSightingKeepsFields ==
    [][\A t \in Tasks : UpsertStep(t) =>
          LET d == properties[t][pos[t]] IN
          Present(store, d.external_id) =>
              /\ new_count'[t] = new_count[t]
              /\ Len(store') = Len(store)
              /\ \A i \in 1..Len(store) :
                    IF store[i].external_id = d.external_id
                    THEN /\ \A f \in KeptFields : store'[i][f] = store[i][f]
                         /\ store'[i].last_seen = now
                         /\ store'[i].is_active = TRUE
                    ELSE store'[i] = store[i]]_vars

\* C6 witness: a repeat draft with another price and another source has just
\* been upserted, later than the first sighting, and the row kept its price
C6_Witness ==
    \E t \in Tasks :
        /\ pc[t] = "upsert" /\ pos[t] = 2 /\ new_count[t] = 0
        /\ \E i \in 1..Len(store) :
              /\ store[i].external_id = properties[t][1].external_id
              /\ store[i].price # properties[t][1].price
              /\ store[i].source # properties[t][1].source
              /\ store[i].first_seen < store[i].last_seen
              /\ store[i].last_seen = now

\* C7: no two rows of the store have the same external_id.
C7_ExternalIdUnique ==
    \A i \in 1..Len(store) : \A j \in 1..Len(store) :
        i # j => store[i].external_id # store[j].external_id

\* C7 witness: one scan yielded the same external_id from two sites, both
\* drafts have been upserted and the store holds one row for it
C7_Witness ==
    \E t \in Tasks :
        /\ pc[t] = "upsert" /\ pos[t] = 3
        /\ properties[t][1].external_id = properties[t][2].external_id
        /\ properties[t][1].source # properties[t][2].source
        /\ Cardinality({i \in 1..Len(store) :
                           store[i].external_id = properties[t][1].external_id}) = 1

\* C8: the age-out sets is_active = false on exactly the rows that are active
\* and whose last_seen is more than the threshold before now; every other row
\* and every other field is unchanged.
C8_AgeOutExact ==
    [][\A t \in Tasks : AgeOutStep(t) =>
          /\ Len(store') = Len(store)
          /\ \A i \in 1..Len(store) :
                /\ store'[i].is_active =
                      (store[i].is_active /\ ~(now - store[i].last_seen > Days))
                /\ [store'[i] EXCEPT !.is_active = store[i].is_active] = store[i]]_vars

\* C8 witness: after an age-out, a row last seen more than the threshold ago
\* is inactive and a row seen now is active
C8_Witness ==
    \E t \in Tasks :
        /\ pc[t] = "fetch"
        /\ Len(store) = 2
        /\ now - store[1].last_seen > Days /\ ~store[1].is_active
        /\ store[2].last_seen = now /\ store[2].is_active

\* C9: get_new_properties(limit) returns only rows with notified = false and
\* is_active = true, and at most limit of them for every limit given, 0 included.
C9_FetchBoundedByLimit ==
    \A t \in Tasks : pc[t] = "fetched" =>
        /\ \A j \in 1..Len(new_properties[t]) : new_properties[t][j] \in Pending(store)
        /\ Len(new_properties[t]) <= max_listings

C10_SecondFetchReturnsRest ==
    (cap_pc = "done" /\ max_listings >= 1 /\ cap_n > max_listings) =>
        /\ Len(first) = max_listings
        /\ Len(second) = cap_n - max_listings

\* C10 (amended): with a cap k >= 1 and n > k new drafts, the first
\* get_new_properties(k) returns exactly the first k rows, and once those are
\* marked the second get_new_properties(k) returns the next min(k, n - k) rows
\* of the remaining n - k.
C10_SecondFetchReturnsNext ==
    (cap_pc = "done" /\ max_listings >= 1 /\ cap_n > max_listings) =>
        /\ first = [j \in 1..max_listings |-> j]
        /\ second = [j \in 1..Min(max_listings, cap_n - max_listings) |->
                        max_listings + j]

\* C10 witness: the case of the specification, cap 2 and 5 new drafts: the
\* second call has returned 2 of the remaining 3
C10_Witness ==
    /\ cap_pc = "done" /\ max_listings = 2 /\ cap_n = 5
    /\ first = <<1, 2>> /\ second = <<3, 4>>
    /\ Pending(store) = {3, 4, 5}

\* C11 (as stated): after a batch in which more listings were pending than the
\* cap, every listing that is still pending and was not among those dispatched
\* is returned by get_new_properties in the next batch (checked for a cap of
\* at least 1 and batches that do not overlap).
C11_LeftReturnedNextBatch ==
    \A t \in Tasks :
        (/\ pc[t] = "fetched"
         /\ \A u \in Tasks \ {t} : pc[u] = "idle"
         /\ max_listings >= 1) =>
            \A i \in left : i \in Range(new_properties[t])

\* C11 (amended): such a listing stays not notified until its own message is
\* accepted, and the next batch fetches it exactly when it is still pending
\* (not aged out, not notified in between) and fewer than cap pending rows
\* precede it in the store (a cap of 0 applies no limit).
C11_LeftReturnedWhenInReach ==
    \A t \in Tasks : pc[t] = "fetched" =>
        \A i \in left :
            /\ store[i].notified => i \in delivered
            /\ i \in Range(new_properties[t]) <=>
                  /\ i \in Pending(store)
                  /\ \/ max_listings = 0
                     \/ Cardinality({j \in Pending(store) : j < i}) < max_listings

\* C11 witness: with a cap of 1, the listing the last batch left beyond the cap
\* has been fetched by the next batch, after the first one was marked
C11_Witness ==
    \E t \in Tasks :
        /\ pc[t] = "fetched" /\ \A u \in Tasks \ {t} : pc[u] = "idle"
        /\ max_listings = 1
        /\ left = {2} /\ new_properties[t] = <<2>>
        /\ store[1].notified /\ 1 \in delivered

\* the step is a store operation of the batch of t that raises: the batch
\* leaves its normal course from an upsert, the age-out, the fetch or a mark
StoreFailStep(t) ==
    /\ running = t
    /\ pc[t] \in {"upsert", "fetch", "mark"}
    /\ pc'[t] \in {"await_error", "idle"}

\* C19: when a store operation of a batch raises, the batch stops and the
\* failure is reported: an error message is handed to the channel, for both
\* triggers, whether or not chat_id is set.
C19_StoreFailureReported ==
    [][\A t \in Tasks : StoreFailStep(t) => pc'[t] = "await_error"]_vars

\* the order of the steps of a batch; the record loop stays at one place
Rank(p) ==
    CASE p = "scrape" -> 1
      [] p = "upsert" -> 2
      [] p = "fetch" -> 3
      [] p = "fetched" -> 4
      [] p = "await_header" -> 5
      [] p \in {"loop", "await_record", "mark"} -> 6
      [] p = "await_overflow" -> 7
      [] p = "await_error" -> 8
      [] OTHER -> 0

\* C20: within one batch the steps come in a fixed order (scrape, every
\* upsert, the age-out once, the fetch, the dispatch): the age-out runs only
\* after the last upsert and right before the fetch, no row is made inactive
\* by any other step, and a row aged out in this batch is not among the rows
\* this batch fetches and dispatches.
C20_BatchOrder ==
    [][\A t \in Tasks :
          /\ (pc'[t] # pc[t] /\ pc'[t] # "idle") =>
                /\ Rank(pc'[t]) >= Rank(pc[t])
                /\ Rank(pc'[t]) \in 2..7 => Rank(pc'[t]) <= Rank(pc[t]) + 1
          /\ AgeOutStep(t) => pos[t] > Len(properties[t])
          /\ (pc[t] = "upsert" /\ pc'[t] = "fetch") =>
                store' = mark_old_listings_inactive(store, Days, now)
          /\ (pc'[t] = "fetched" /\ pc[t] # "fetched") =>
                /\ pc[t] = "fetch"
                /\ aged[t] \cap Range(new_properties'[t]) = {}
          /\ (\E i \in 1..Len(store) : store[i].is_active /\ ~store'[i].is_active) =>
                \E u \in Tasks : AgeOutStep(u)
          /\ (Rank(pc[t]) >= 4 /\ pc'[t] # "idle" /\ pc'[t] # "await_error") =>
                new_properties'[t] = new_properties[t]
          /\ pc'[t] = "await_record" =>
                Capped(t)[k[t]] \in Range(new_properties[t])]_vars

\* C20 witness: the age-out of this batch has made a row inactive, the fetch
\* that followed has returned another row, and the batch goes on to dispatch
C20_Witness ==
    \E t \in Tasks :
        /\ pc[t] = "fetched"
        /\ aged[t] = {1} /\ ~store[1].is_active /\ ~store[1].notified
        /\ new_properties[t] = <<2>>
        /\ store[2].first_seen = now

\* the three calls of the identity scenario are made
IdsDone == Len(id_out) = Len(id_args) + 1

\* C17 (as stated): _generate_id is deterministic, and two pairs that differ in
\* url or in title have different identities, strings with ':' included.
C17_IdentityInjective ==
    IdsDone =>
        /\ id_out[3] = id_out[1]
        /\ id_args[1] # id_args[2] => id_out[1] # id_out[2]

\* C17 (amended): _generate_id is deterministic, two pairs that differ in
\* exactly one of url and title have different identities, and so have two
\* different pairs whose titles contain no ':'.
C17_IdentitySensitive ==
    IdsDone =>
        LET p == id_args[1]
            q == id_args[2]
        IN  /\ id_out[3] = id_out[1]
            /\ ((p[1] = q[1]) # (p[2] = q[2])) => id_out[1] # id_out[2]
            /\ (p # q /\ p[2] \in Colonless /\ q[2] \in Colonless) => id_out[1] # id_out[2]

\* C17 witness: two pairs with the same url, which contains ':', and two
\* titles, one of which contains ':', have got different identities
C17_Witness ==
    /\ IdsDone
    /\ id_args = <<(<<"a:", "b">>), (<<"a:", ":b">>)>>
    /\ id_out[1] # id_out[2]
    /\ id_out[3] = id_out[1]

\* the records a site is to contribute: those of its page, in document order,
\* when it is enabled, its page is fetched and its containers are selected
RECURSIVE ExtractAll(_, _)
ExtractAll(containers, site_config) ==
    IF containers = <<>> THEN <<>>
    ELSE extract_property_data(Head(containers), site_config)
             \o ExtractAll(Tail(containers), site_config)

SiteSucceeds(site_config) ==
    /\ Enabled(site_config)
    /\ web[site_config.name].kind = "ok"
    /\ "listing_container" \in DOMAIN site_config.selectors
    /\ site_config.selectors.listing_container = "div"

RECURSIVE RecordsFrom(_)
RecordsFrom(i) ==
    IF i > Len(config.sites) THEN <<>>
    ELSE (IF SiteSucceeds(config.sites[i])
          THEN ExtractAll(web[config.sites[i].name].listing, config.sites[i])
          ELSE <<>>) \o RecordsFrom(i + 1)

\* C12: a site whose fetch or container selection fails contributes no record
\* and the loop goes on with the next site; while the call is not over a step
\* is possible; the result is the concatenation, in configured order, of the
\* records of the sites that succeeded.
C12_SiteFailureIsolated ==
    /\ [][(s_pc = "get" /\ s_pc' # "extract") =>
              /\ all_properties' = all_properties
              /\ site_no' = site_no + 1
              /\ s_pc' = "site"]_vars
    /\ [](s_pc # "done" => ENABLED ScrapeNext)
    /\ [](s_pc = "done" => all_properties = RecordsFrom(1))

\* C12 witness: the fetch of site A timed out and the call has returned the
\* records of site B
C12_Witness ==
    /\ s_pc = "done"
    /\ Len(config.sites) = 2
    /\ Enabled(config.sites[1]) /\ web["A"].kind = "timeout"
    /\ Len(all_properties) = 2
    /\ \A i \in 1..Len(all_properties) : all_properties[i].source = "B"

\* the text is empty once normalized: it has nothing but spaces
IsBlank(text) == \A i \in 1..Len(text) : text[i] = " "

\* the container the step extracts from
Candidate == ListingContainers[listing_no]

\* the step is one iteration of the loop over the containers
ExtractStep == s_pc = "extract" /\ listing_no' = listing_no + 1

\* the page gives the candidate no title or no link
LacksTitleOrLink(c) ==
    \/ ~c["h2"].exists
    \/ IsBlank(c["h2"].text)
    \/ ~c["a"].exists
    \/ ~c["a"].has_href
    \/ c["a"].href = <<>>

\* C13: no emitted record has an empty title or an empty url, and a candidate
\* with no title element, an empty title, no link element or no href is dropped.
C13_NoEmptyTitleOrUrl ==
    /\ [](\A i \in 1..Len(site_properties) :
              site_properties[i].title # "" /\ site_properties[i].url # "")
    /\ [](\A i \in 1..Len(all_properties) :
              all_properties[i].title # "" /\ all_properties[i].url # "")
    /\ [][(ExtractStep /\ LacksTitleOrLink(Candidate)) =>
              site_properties' = site_properties]_vars

\* C13 witness: of a page with a candidate without title element, a full one
\* and one with an empty href, the full one alone was emitted
C13_Witness ==
    /\ s_pc = "done"
    /\ Len(config.sites) = 1
    /\ config.sites[1].selectors = FullSelectors
    /\ web["A"].listing = <<NoTitle, Good, EmptyHref>>
    /\ Len(all_properties) = 1
    /\ all_properties[1].title = "a b"
    /\ all_properties[1].url = "http://h/p1"

\* the required selectors of the rule set are the ones the pages are written
\* for, and the library matches nothing for an empty selector
RequiredSelectorsGiven ==
    /\ "title" \in DOMAIN CurrentSite.selectors
    /\ "link" \in DOMAIN CurrentSite.selectors
    /\ CurrentSite.selectors["title"] = "h2"
    /\ CurrentSite.selectors["link"] = "a"
    /\ ~select_empty_raises

\* C14: a candidate that is dropped does not abort the page: every candidate
\* of the page that has a title and a link is emitted, in document order.
C14_CandidatesIsolated ==
    [][(ExtractStep /\ RequiredSelectorsGiven) =>
          /\ LacksTitleOrLink(Candidate) => site_properties' = site_properties
          /\ ~LacksTitleOrLink(Candidate) =>
                /\ Len(site_properties') = Len(site_properties) + 1
                /\ SubSeq(site_properties', 1, Len(site_properties)) = site_properties
                /\ site_properties'[Len(site_properties')].title =
                       Str(clean_text(Candidate["h2"].text))]_vars

\* the value the record is to have for an optional field of the candidate c
Optional(c, key) ==
    LET selectors == CurrentSite.selectors IN
    IF key \notin DOMAIN selectors THEN "N/A"
    ELSE IF selectors[key] \notin DOMAIN c THEN "N/A"
    ELSE IF ~c[selectors[key]].exists THEN "N/A"
    ELSE Str(clean_text(c[selectors[key]].text))

\* C15: for a candidate with a title and a link, the record is emitted, and
\* each of price, location, bedrooms and area whose selector is absent from the
\* selector map, is empty or matches no element is "N/A", whatever the others are.
C15_OptionalFieldsDefault ==
    [][(ExtractStep /\ RequiredSelectorsGiven /\ ~LacksTitleOrLink(Candidate)) =>
          /\ Len(site_properties') = Len(site_properties) + 1
          /\ \A key \in {"price", "location", "bedrooms", "area"} :
                site_properties'[Len(site_properties')][key] = Optional(Candidate, key)]_vars

\* C16: in every emitted record, price, location, bedrooms and area are never
\* the empty string.
C16_NoEmptyOptionalField ==
    \A i \in 1..Len(site_properties) :
        \A key \in {"price", "location", "bedrooms", "area"} :
            site_properties[i][key] # ""

\* the entry keeps every field but 'enabled', and gets no field but 'enabled'
SameButEnabled(before, after) ==
    /\ DOMAIN after \ {"enabled"} = DOMAIN before \ {"enabled"}
    /\ \A x \in DOMAIN before \ {"enabled"} : after[x] = before[x]

\* what the step of enable_site or disable_site for site_name may change
OnlyFlagOf(site_name, flag) ==
    LET n == first_named(config.sites, site_name) IN
    /\ Len(config'.sites) = Len(config.sites)
    /\ \A i \in 1..Len(config.sites) :
          IF i = n
          THEN /\ SameButEnabled(config.sites[i], config'.sites[i])
               /\ config'.sites[i].enabled = flag
          ELSE config'.sites[i] = config.sites[i]
    /\ IF n = 0
       THEN result' = "False" /\ config' = config /\ config_file' = config_file
       ELSE result' = "True"

\* what the step of add_custom_site may change
OnlyAppends(site_config) ==
    \/ /\ result' = "ValueError"
       /\ config' = config
       /\ config_file' = config_file
    \/ /\ result' = "None"
       /\ Len(config'.sites) = Len(config.sites) + 1
       /\ SubSeq(config'.sites, 1, Len(config.sites)) = config.sites
       /\ \A x \in DOMAIN site_config :
             config'.sites[Len(config'.sites)][x] = site_config[x]

\* C18: enable_site and disable_site change only the enabled flag of the named
\* site, add_custom_site only appends one entry; scraping_settings, the other
\* sites and the order of the entries stay; a name that is not there changes
\* nothing and gives False; the document written is the configuration.
C18_OnlyNamedChange ==
    [][/\ config'.scraping_settings = config.scraping_settings
       /\ config_file' = dump(config')
       /\ config_file'.scraping_settings = config_file.scraping_settings
       /\ call'[1] = "enable_site" => OnlyFlagOf(call'[2], TRUE)
       /\ call'[1] = "disable_site" => OnlyFlagOf(call'[2], FALSE)
       /\ call'[1] = "add_custom_site" => OnlyAppends(call'[2])]_vars

\* C18 witness: site B, which had no flag, was disabled after a site was
\* added, and site A and the added site are as they were
C18_Witness ==
    /\ call = <<"disable_site", "B">>
    /\ result = "True"
    /\ Len(config.sites) = 3
    /\ config.sites[1] = Site("A", TRUE, FullSelectors)
    /\ config.sites[2] = Site("B", FALSE, FullSelectors)
    /\ config.sites[3].name = "C"
    /\ config.sites[3].enabled
    /\ config.sites[3].scraper_type = "custom"
    /\ config_file.sites[2].enabled = "false"
    /\ config.scraping_settings = Settings

\* the listing whose record message the batch of t is at
Current(t) == Capped(t)[k[t]]

\* the record messages of the pass come one per listing, each after the mark
\* of the one before: the loop is entered after the header with the first
\* listing and after a mark with the next one
RecordsInTurn(t) ==
    /\ (pc'[t] = "await_record" /\ pc[t] # "await_record") =>
          /\ pc[t] = "loop"
          /\ k[t] \in 1..Len(new_properties[t])
          /\ k[t] <= max_listings
          /\ \A j \in 1..(k[t] - 1) : new_properties[t][j] # new_properties[t][k[t]]
    /\ (pc'[t] = "loop" /\ pc[t] # "loop") =>
          \/ pc[t] = "await_header" /\ k'[t] = 1
          \/ /\ pc[t] = "mark"
             /\ k'[t] = k[t] + 1
             /\ store' = mark_as_notified(store, Current(t))
             /\ store'[Current(t)].notified
    /\ (pc[t] = "await_record" /\ pc'[t] # "await_record") =>
          /\ pc'[t] \in {"mark", "idle"}
          /\ pc'[t] = "mark" => k'[t] = k[t]
    /\ (pc[t] = "mark" /\ pc'[t] # "mark") => pc'[t] \in {"loop", "idle"}
    /\ (k'[t] # k[t] /\ pc'[t] # "idle") => pc'[t] = "loop" /\ pc[t] # "loop"

\* the header is the first message of the pass and there is one only
OneHeaderFirst(t) ==
    /\ (pc'[t] = "await_header" /\ pc[t] # "await_header") => pc[t] = "fetched"
    /\ (pc'[t] = "fetched" /\ pc[t] # "fetched") => pc[t] = "fetch"
    /\ (pc[t] = "await_header" /\ pc'[t] # "await_header") => pc'[t] \in {"loop", "idle"}

\* C21: in the pass of a batch that has fetched at least one pending listing,
\* one header is sent, before any record message; then at most cap record
\* messages are sent, one per listing, each followed by the mark of its listing
\* before the next message is sent.
C21_HeaderThenRecords ==
    [][\A t \in Tasks :
          /\ (running = t /\ pc[t] = "fetched" /\ new_properties[t] # <<>>) =>
                pc'[t] = "await_header"
          /\ OneHeaderFirst(t)
          /\ RecordsInTurn(t)]_vars

\* lines 111-112: the test for the overflow message and the number it reports,
\* taken on the list the pass was given
OverflowDue(t) == Len(new_properties[t]) > max_listings
OverflowCount(t) == Len(new_properties[t]) - max_listings

\* C22: a batch that finds more pending listings than the cap sends record
\* messages for at most cap of them and reports the number left over in an
\* overflow message (the state is the one right after the fetch, where the
\* pending rows of the store are the ones the batch found).
C22_OverflowReported ==
    \A t \in Tasks :
        (pc[t] = "fetched" /\ Cardinality(Pending(store)) > max_listings) =>
            /\ Len(Capped(t)) <= max_listings
            /\ OverflowDue(t)
            /\ OverflowCount(t) = Cardinality(Pending(store)) - max_listings

\* the entries the last call of the trigger t has put on the wire
LastCall(t) ==
    LET begins == {j \in 1..Len(wire) : wire[j].kind = "begin" /\ wire[j].by = t}
        b      == CHOOSE j \in begins : \A i \in begins : i <= j
    IN  SelectSeq(SubSeq(wire, b + 1, Len(wire)), LAMBDA e : e.by = t)

\* what a call of t is to put on the wire for the sites from position i on:
\* for each site whose flag is true, in configured order, the delay and then
\* the request
RECURSIVE DelayedRequests(_, _)
DelayedRequests(t, i) ==
    IF i > Len(config.sites) THEN <<>>
    ELSE (IF "enabled" \in DOMAIN config.sites[i] /\ config.sites[i].enabled
          THEN <<Sleep(t, i, config), Get(t, i, config)>>
          ELSE <<>>) \o DelayedRequests(t, i + 1)

\* C23: whatever the triggers, at most one request is in flight; every request
\* comes right after the configured delay, taken by the same call for the same
\* site; and a call that has returned has fetched the enabled sites one after
\* another in configured order.
C23_OneRequestAtATime ==
    /\ Cardinality({t \in Tasks : f_pc[t] = "get"}) <= 1
    /\ \A j \in 1..Len(wire) :
          wire[j].kind = "get" =>
              /\ j > 1
              /\ wire[j - 1] = Sleep(wire[j].by, wire[j].no, config)
              /\ wire[j - 1].delay = Settings.delay_between_requests
    /\ \A t \in Tasks : f_pc[t] = "dispatch" => LastCall(t) = DelayedRequests(t, 1)

\* C23 witness: the batch of the timer has fetched both sites and awaits the
\* channel; the batch of /scan, started meanwhile, has fetched site A and its
\* request for site B is in flight
C23_Witness ==
    /\ f_pc["timer"] = "dispatch"
    /\ f_pc["scan"] = "get" /\ f_site["scan"] = 2
    /\ Len(wire) = 10
    /\ wire[1].by = "timer" /\ wire[6].by = "scan" /\ wire[6].kind = "begin"
    /\ wire[10] = Get("scan", 2, config)
    /\ wire[9].kind = "sleep"

\* the enabled flag of the site is false or absent
Disabled(site_config) ==
    IF "enabled" \in DOMAIN site_config THEN ~site_config.enabled ELSE TRUE

\* the rule set without the sites whose flag is false or absent
Listed == SelectSeq(config.sites, LAMBDA x : ~Disabled(x))

\* the records and the traffic of a rule set all of whose sites are fetched
RECURSIVE RecordsOfSites(_)
RecordsOfSites(sites) ==
    IF sites = <<>> THEN <<>>
    ELSE (IF /\ web[Head(sites).name].kind = "ok"
             /\ "listing_container" \in DOMAIN Head(sites).selectors
             /\ Head(sites).selectors.listing_container = "div"
          THEN ExtractAll(web[Head(sites).name].listing, Head(sites))
          ELSE <<>>) \o RecordsOfSites(Tail(sites))

RECURSIVE TrafficOfSites(_)
TrafficOfSites(sites) ==
    IF sites = <<>> THEN <<>>
    ELSE <<[kind |-> "sleep", delay |-> Settings.delay_between_requests, url |-> <<>>],
           [kind |-> "get", delay |-> "", url |-> Head(sites).search_url]>>
             \o TrafficOfSites(Tail(sites))

\* the delays and requests on the wire, without the positions of their sites
Traffic == [j \in 1..Len(wire) |->
               [kind |-> wire[j].kind, delay |-> wire[j].delay, url |-> wire[j].url]]

\* C24: a site whose enabled flag is false or absent is a no-op: the step for
\* it takes no delay, sends no request and adds no record; the records and
\* the traffic of the call are those of the rule set without such sites.
C24_DisabledSiteIsNoOp ==
    /\ [][(s_pc = "site" /\ site_no <= Len(config.sites) /\ Disabled(config.sites[site_no])) =>
              /\ wire' = wire
              /\ all_properties' = all_properties
              /\ site_properties' = site_properties
              /\ s_pc' = "site"
              /\ site_no' = site_no + 1]_vars
    /\ [](s_pc = "done" =>
              /\ all_properties = RecordsOfSites(Listed)
              /\ Traffic = TrafficOfSites(Listed))

\* C24 witness: site A has no enabled flag, site B is enabled: the call has
\* returned the two records of site B after one delay and one request
C24_Witness ==
    /\ s_pc = "done"
    /\ Len(config.sites) = 2
    /\ "enabled" \notin DOMAIN config.sites[1]
    /\ web["A"].kind = "ok" /\ Len(web["A"].listing) = 2
    /\ Len(wire) = 2
    /\ wire[2] = Get("call", 2, config)
    /\ Len(all_properties) = 2
    /\ \A i \in 1..2 : all_properties[i].source = "B"

\* C25: the timer and /scan run the same batch: with a working channel, a
\* batch of either trigger that has fetched pending listings hands the header
\* to the channel and goes on to its record messages and marks; it does not
\* end for want of a destination.
C25_SameBatchForBothTriggers ==
    \A t \in Tasks :
        (running = t /\ pc[t] = "fetched" /\ new_properties[t] # <<>>) =>
            /\ ENABLED SendHeader(t)
            /\ ~ENABLED NoDestination(t)

\* C26: when batches do not overlap and no store operation fails, no listing
\* has its record message accepted twice: the listing whose message has just
\* been accepted is marked notified by the very next step, and no fetch
\* returns a listing whose message was accepted.
C26_NoSecondDispatch ==
    /\ [][\A t \in Tasks :
              /\ (pc[t] = "await_record" /\ pc'[t] = "mark") => Current(t) \notin delivered
              /\ pc[t] = "mark" =>
                    /\ pc'[t] = "loop"
                    /\ store'[Current(t)].notified]_vars
    /\ [](\A t \in Tasks :
              /\ pc[t] = "mark" => running = t
              /\ pc[t] = "fetched" => Range(new_properties[t]) \cap delivered = {})

\* C26 witness: listing 1 was delivered and marked in an earlier batch and has
\* been sighted again; the batch that follows has fetched listing 2 only
C26_Witness ==
    \E t \in Tasks :
        /\ pc[t] = "fetched"
        /\ new_properties[t] = <<2>>
        /\ 1 \in delivered /\ store[1].notified /\ store[1].is_active
        /\ store[1].last_seen > store[1].first_seen

\* C27: notified never goes from true to false; a repeat sighting makes the
\* row active and leaves notified as it is, so a notified row that was aged
\* out and is sighted again is not pending and is in no later fetch, and a
\* row aged out before it was notified is pending again; the age-out leaves
\* notified alone.
C27_NotifiedMonotonic ==
    /\ [][/\ Len(store') >= Len(store)
          /\ \A i \in 1..Len(store) : store[i].notified => store'[i].notified
          /\ \A t \in Tasks :
                /\ UpsertStep(t) =>
                      LET i == FindByExternalId(store, properties[t][pos[t]].external_id) IN
                      i # 0 =>
                          /\ store'[i].is_active
                          /\ store'[i].notified = store[i].notified
                          /\ i \in Pending(store') <=> ~store[i].notified
                /\ AgeOutStep(t) =>
                      \A i \in 1..Len(store) : store'[i].notified = store[i].notified]_vars
    /\ [](\A t \in Tasks : pc[t] = "fetched" =>
              \A j \in 1..Len(new_properties[t]) : ~store[new_properties[t][j]].notified)

\* C27 witness: both rows were last seen more than the threshold ago; row 1,
\* notified, has just been sighted again and is active and still notified;
\* row 2 was aged out before it was notified and is sighted next
C27_Witness ==
    \E t \in Tasks :
        /\ pc[t] = "upsert" /\ pos[t] = 2 /\ Len(properties[t]) = 2
        /\ Len(store) = 2
        /\ store[1].external_id = properties[t][1].external_id
        /\ store[2].external_id = properties[t][2].external_id
        /\ store[1].notified /\ store[1].is_active /\ 1 \notin Pending(store)
        /\ store[1].last_seen = now /\ now - store[1].first_seen > Days
        /\ ~store[2].notified /\ ~store[2].is_active
        /\ now - store[2].last_seen > Days

====
